---------------------------- MODULE Spec2Model ----------------------------
(***************************************************************************)
(* A model of kashgari.embeddings.word_embedding.WordEmbedding:            *)
(* vocabulary construction from a word2vec key-vector table                *)
(* (_build_token2idx_from_w2v), graph construction (_build_model) and the  *)
(* life cycle of one instance (__init__, analyze_corpus).                  *)
(*                                                                         *)
(* Conventions.  A Python dict is a sequence of [key, value] entries in    *)
(* insertion order.  A numpy matrix is a sequence of rows; Python row r is *)
(* element r + 1 of the sequence (Row).  Vector components are fixed-point *)
(* numbers in units of one half, so a draw of np.random.rand, which lies   *)
(* in [0, 1), is 0 or 1.  An attribute that has not been assigned yet is   *)
(* the empty sequence.                                                     *)
(***************************************************************************)
EXTENDS Integers, Sequences, FiniteSets

VARIABLES
    pc,                  \* "new", "idle", "super" (inside analyze_corpus, at line 140), "failed"
    table,               \* what KeyedVectors.load_word2vec_format returns for w2v_path
    sequence_length,     \* the configured tuple of sequence lengths
    w2v_model_loaded,
    embedding_size,
    w2v_vector_matrix,
    w2v_token2idx,
    processor_token2idx,
    processor_idx2token,
    embed_model,
    created_layers,      \* the embedding layers the last run of _build_model created
    raised,              \* the last call ended with an exception
    last_call,           \* the method called last
    loads,               \* how many times _build_token2idx_from_w2v has run
    calls                \* how many public calls were made after construction

vars == <<pc, table, sequence_length, w2v_model_loaded, embedding_size,
          w2v_vector_matrix, w2v_token2idx, processor_token2idx,
          processor_idx2token, embed_model, created_layers, raised, last_call,
          loads, calls>>

-----------------------------------------------------------------------------
\* Bounds of the model.
MaxWords == 2
MaxBranches == 2
MaxCalls == 3

\* The inputs the model draws from.
VecSizes == {1, 2}
Comp == {0, 1}
SeqLens == {12, 20}

\* The processor's reserved tokens (kashgari.pre_processors.base_processor).
token_pad == "<PAD>"
token_unk == "<UNK>"
token_bos == "<BOS>"
token_eos == "<EOS>"

Words == {token_pad, token_eos, "a", "b"}

-----------------------------------------------------------------------------
\* Python dicts.
DictKeys(d) == {d[i].key : i \in DOMAIN d}

DictValues(d) == {d[i].value : i \in DOMAIN d}

DictGet(d, k) == d[CHOOSE i \in DOMAIN d : d[i].key = k].value

DictSet(d, k, v) ==
    IF k \in DictKeys(d)
    THEN [i \in DOMAIN d |-> IF d[i].key = k THEN [key |-> k, value |-> v] ELSE d[i]]
    ELSE Append(d, [key |-> k, value |-> v])

RECURSIVE DictFromPairs(_, _)
DictFromPairs(d, pairs) ==
    IF pairs = <<>> THEN d
    ELSE DictFromPairs(DictSet(d, Head(pairs).key, Head(pairs).value), Tail(pairs))

\* numpy: python row r of a matrix.
Row(m, r) == m[r + 1]

Zeros(size) == [j \in 1..size |-> 0]

\* f'{index}'
Digit(n) == CASE n = 0 -> "0" [] n = 1 -> "1" [] n = 2 -> "2" [] n = 3 -> "3"
              [] n = 4 -> "4" [] n = 5 -> "5" [] n = 6 -> "6" [] n = 7 -> "7"
              [] n = 8 -> "8" [] n = 9 -> "9"

RECURSIVE IntToStr(_)
IntToStr(n) == IF n < 10 THEN Digit(n) ELSE IntToStr(n \div 10) \o Digit(n % 10)

-----------------------------------------------------------------------------
\* The tables KeyedVectors.load_word2vec_format can return: distinct words
\* (gensim drops a duplicate word), one vector of vector_size per word.
WordSeqs ==
    UNION {{ws \in [1..n -> Words] : \A i, j \in 1..n : ws[i] = ws[j] => i = j}
           : n \in 0..MaxWords}

Tables ==
    UNION {{[vector_size |-> s, index2word |-> ws, vectors |-> vs]
            : vs \in [1..Len(ws) -> [1..s -> Comp]]}
           : ws \in WordSeqs, s \in VecSizes}

SeqLenTuples == UNION {[1..n -> SeqLens] : n \in 1..MaxBranches}

\* The draws of np.random.rand(size).
RandVectors(size) == [1..size -> Comp]

-----------------------------------------------------------------------------
\* _build_token2idx_from_w2v, lines 66-71: the four reserved tokens.
ReservedToken2idx ==
    <<[key |-> token_pad, value |-> 0],
      [key |-> token_unk, value |-> 1],
      [key |-> token_bos, value |-> 2],
      [key |-> token_eos, value |-> 3]>>

\* Lines 73-74: for token in w2v.index2word: token2idx[token] = len(token2idx)
RECURSIVE AddTokens(_, _)
AddTokens(token2idx, words) ==
    IF words = <<>> THEN token2idx
    ELSE AddTokens(DictSet(token2idx, Head(words), Len(token2idx)), Tail(words))

BuildToken2idx(w2v) == AddTokens(ReservedToken2idx, w2v.index2word)

\* The row numbers lines 77 and 78 write.
UnkRow == 1
FirstLoadedRow == 4

\* Line 78, vector_matrix[4:] = w2v.vectors: numpy assigns when the shapes
\* agree or the right-hand side has one row (broadcast over the slice, an
\* empty slice included); otherwise it raises ValueError.
SliceAssignable(n_rows, w2v) ==
    \/ n_rows - FirstLoadedRow = Len(w2v.vectors)
    \/ Len(w2v.vectors) = 1

\* A variant of BuildVectorMatrix: the random row is the pad row.
BuildVectorMatrix_RandomPadRow(token2idx, w2v, rnd) ==
    [i \in 1..Len(token2idx) |->
        IF i - 1 = 0 THEN rnd
        ELSE IF i - 1 >= FirstLoadedRow
             THEN IF Len(w2v.vectors) = 1 THEN w2v.vectors[1]
                  ELSE w2v.vectors[i - FirstLoadedRow]
             ELSE Zeros(w2v.vector_size)]

\* Lines 76-78.
BuildVectorMatrix(token2idx, w2v, rnd) ==
    [i \in 1..Len(token2idx) |->
        IF i - 1 = UnkRow THEN rnd
        ELSE IF i - 1 >= FirstLoadedRow
             THEN IF Len(w2v.vectors) = 1 THEN w2v.vectors[1]
                  ELSE w2v.vectors[i - FirstLoadedRow]
             ELSE Zeros(w2v.vector_size)]

\* Line 87: dict([(value, key) for key, value in token2idx.items()])
RECURSIVE Inverted(_)
Inverted(token2idx) ==
    IF token2idx = <<>> THEN <<>>
    ELSE <<[key |-> Head(token2idx).value, value |-> Head(token2idx).key]>>
         \o Inverted(Tail(token2idx))

BuildIdx2token(token2idx) == DictFromPairs(<<>>, Inverted(token2idx))

\* Embedding.token_count of the base class: len(self.processor.token2idx).
TokenCount(token2idx) == Len(token2idx)

token_count == TokenCount(processor_token2idx)

-----------------------------------------------------------------------------
\* _build_model.  A tensor is the record of the layer that produced it and of
\* what the layer was applied to.
None == [kind |-> "None"]

\* A variant of NothingToBuild: the comparison never holds.
NothingToBuild_Negative(n_tokens) == n_tokens < 0

\* Line 96.
NothingToBuild(n_tokens) == n_tokens = 0

\* Lines 102-103: L.Input(shape=(seq_len,), name=f'input_{index}')
InputTensor(index, seq_len) ==
    [op |-> "Input", name |-> "input_" \o IntToStr(index), shape |-> <<seq_len>>]

\* A variant of LayerEmbedding: the layer is trainable.
LayerEmbedding_Trainable(index, n_tokens, size, matrix) ==
    [op |-> "Embedding",
     input_dim |-> n_tokens,
     output_dim |-> size,
     weights |-> <<matrix>>,
     trainable |-> TRUE,
     name |-> "layer_embedding_" \o IntToStr(index)]

\* Lines 104-108.
LayerEmbedding(index, n_tokens, size, matrix) ==
    [op |-> "Embedding",
     input_dim |-> n_tokens,
     output_dim |-> size,
     weights |-> <<matrix>>,
     trainable |-> FALSE,
     name |-> "layer_embedding_" \o IntToStr(index)]

\* Line 110: layer_embedding(input_tensor)
EmbeddedTensor(index, seq_len, n_tokens, size, matrix) ==
    [layer |-> LayerEmbedding(index, n_tokens, size, matrix),
     applied_to |-> <<InputTensor(index, seq_len)>>]

\* Lines 99-113: enumerate(self.sequence_length) starts at index 0.
InputLayers(seq_lens) ==
    [i \in 1..Len(seq_lens) |-> InputTensor(i - 1, seq_lens[i])]

OutputLayers(seq_lens, n_tokens, size, matrix) ==
    [i \in 1..Len(seq_lens) |-> EmbeddedTensor(i - 1, seq_lens[i], n_tokens, size, matrix)]

\* Line 116, layer_concatenate(output_layers): Concatenate joins along the
\* last axis (the default), and keras raises ValueError unless the tensors,
\* of shape (None, seq_len, size), agree on every other axis.
ConcatenateAccepts(output_layers) ==
    \A i, j \in DOMAIN output_layers :
        output_layers[i].applied_to[1].shape = output_layers[j].applied_to[1].shape

\* Lines 114-118: whether line 116 raises, and the output otherwise.
\* keras.Model keeps its outputs as a list, so the single concatenated tensor
\* is a list of one.
ModelOutput(output_layers) ==
    IF Len(output_layers) > 1
    THEN IF ConcatenateAccepts(output_layers)
         THEN [raises |-> FALSE,
               output |-> <<[layer |-> [op |-> "Concatenate", name |-> "layer_concatenate"],
                             applied_to |-> output_layers]>>]
         ELSE [raises |-> TRUE, output |-> <<>>]
    ELSE [raises |-> FALSE, output |-> output_layers]

\* Line 120: keras.Model(input_layers, output)
BuiltModel(seq_lens, n_tokens, size, matrix) ==
    [kind |-> "Model",
     inputs |-> InputLayers(seq_lens),
     outputs |-> ModelOutput(OutputLayers(seq_lens, n_tokens, size, matrix)).output]

\* Whether a run of lines 95-120 ends with the ValueError of line 116.
BuildRaises(seq_lens, n_tokens, size, matrix) ==
    /\ ~NothingToBuild(n_tokens)
    /\ ModelOutput(OutputLayers(seq_lens, n_tokens, size, matrix)).raises

\* Lines 95-120, on the attribute values the call reads: embed_model after
\* the run. Line 120 is not reached when line 116 raises.
ModelAfterBuild(old, seq_lens, n_tokens, size, matrix) ==
    IF NothingToBuild(n_tokens) \/ BuildRaises(seq_lens, n_tokens, size, matrix)
    THEN old
    ELSE BuiltModel(seq_lens, n_tokens, size, matrix)

\* Lines 101-108: the embedding layers a run creates.
CreatedLayers(seq_lens, n_tokens, size, matrix) ==
    IF NothingToBuild(n_tokens) THEN <<>>
    ELSE [i \in 1..Len(seq_lens) |->
             OutputLayers(seq_lens, n_tokens, size, matrix)[i].layer]

-----------------------------------------------------------------------------
\* A variant of NeedsLoad: the test is inverted.
NeedsLoad_Inverted(loaded) == loaded

\* Line 137.
NeedsLoad(loaded) == ~loaded

Init ==
    /\ pc = "new"
    /\ table \in Tables
    /\ sequence_length \in SeqLenTuples
    /\ w2v_model_loaded = FALSE
    /\ embedding_size = 0
    /\ w2v_vector_matrix = <<>>
    /\ w2v_token2idx = <<>>
    /\ processor_token2idx = <<>>
    /\ processor_idx2token = <<>>
    /\ embed_model = None
    /\ created_layers = <<>>
    /\ raised = FALSE
    /\ last_call = "none"
    /\ loads = 0
    /\ calls = 0

\* Whether _build_token2idx_from_w2v completes on the table (line 78).
LoadCompletes == SliceAssignable(Len(BuildToken2idx(table)), table)

\* Lines 80-87, for the draw rnd of line 77.
Loaded(rnd) ==
    /\ embedding_size' = table.vector_size
    /\ w2v_vector_matrix' = BuildVectorMatrix(BuildToken2idx(table), table, rnd)
    /\ w2v_token2idx' = BuildToken2idx(table)
    /\ w2v_model_loaded' = TRUE
    /\ processor_token2idx' = BuildToken2idx(table)
    /\ processor_idx2token' = BuildIdx2token(BuildToken2idx(table))

\* Line 78 raised: nothing of lines 80-87 ran.
NotLoaded ==
    UNCHANGED <<embedding_size, w2v_vector_matrix, w2v_token2idx, w2v_model_loaded,
                processor_token2idx, processor_idx2token>>

\* __init__ with processor=None (lines 49-59): the base class makes the
\* processor of the task, whose vocabulary is empty.
InitWithoutProcessor ==
    /\ pc = "new"
    /\ pc' = "idle"
    /\ raised' = FALSE
    /\ last_call' = "__init__"
    /\ NotLoaded
    /\ UNCHANGED <<table, sequence_length, embed_model, created_layers, loads, calls>>

\* __init__ with a processor (lines 49-61): load, then _build_model. When
\* _build_model raises, the constructor fails after lines 80-87 have run.
InitWithProcessor ==
    /\ pc = "new"
    /\ last_call' = "__init__"
    /\ loads' = loads + 1
    /\ IF LoadCompletes
       THEN /\ \E rnd \in RandVectors(table.vector_size) : Loaded(rnd)
            /\ embed_model' = ModelAfterBuild(embed_model, sequence_length,
                                              TokenCount(processor_token2idx'),
                                              embedding_size', w2v_vector_matrix')
            /\ created_layers' = CreatedLayers(sequence_length,
                                               TokenCount(processor_token2idx'),
                                               embedding_size', w2v_vector_matrix')
            /\ raised' = BuildRaises(sequence_length, TokenCount(processor_token2idx'),
                                     embedding_size', w2v_vector_matrix')
            /\ pc' = IF raised' THEN "failed" ELSE "idle"
       ELSE /\ NotLoaded
            /\ pc' = "failed"
            /\ raised' = TRUE
            /\ UNCHANGED <<embed_model, created_layers>>
    /\ UNCHANGED <<table, sequence_length, calls>>

\* analyze_corpus, lines 135-138: up to the call of the base class.
AnalyzeCorpus ==
    /\ pc = "idle"
    /\ calls < MaxCalls
    /\ calls' = calls + 1
    /\ last_call' = "analyze_corpus"
    /\ IF NeedsLoad(w2v_model_loaded)
       THEN /\ loads' = loads + 1
            /\ IF LoadCompletes
               THEN /\ \E rnd \in RandVectors(table.vector_size) : Loaded(rnd)
                    /\ pc' = "super"
                    /\ raised' = FALSE
               ELSE /\ NotLoaded
                    /\ pc' = "idle"
                    /\ raised' = TRUE
       ELSE /\ NotLoaded
            /\ pc' = "super"
            /\ raised' = FALSE
            /\ UNCHANGED loads
    /\ UNCHANGED <<table, sequence_length, embed_model, created_layers>>

\* analyze_corpus, line 140: the base class's analysis. The processor keeps a
\* vocabulary that is already there, and no w2v attribute is written.
SuperAnalyzeCorpus ==
    /\ pc = "super"
    /\ pc' = "idle"
    /\ NotLoaded
    /\ UNCHANGED <<table, sequence_length, embed_model, created_layers, raised,
                   last_call, loads, calls>>

\* _build_model called on the instance (as line 158 does).
BuildModel ==
    /\ pc = "idle"
    /\ calls < MaxCalls
    /\ calls' = calls + 1
    /\ last_call' = "_build_model"
    /\ raised' = BuildRaises(sequence_length, token_count, embedding_size,
                             w2v_vector_matrix)
    /\ embed_model' = ModelAfterBuild(embed_model, sequence_length, token_count,
                                      embedding_size, w2v_vector_matrix)
    /\ created_layers' = CreatedLayers(sequence_length, token_count, embedding_size,
                                       w2v_vector_matrix)
    /\ NotLoaded
    /\ UNCHANGED <<pc, table, sequence_length, loads>>

Next ==
    \/ InitWithoutProcessor
    \/ InitWithProcessor
    \/ AnalyzeCorpus
    \/ SuperAnalyzeCorpus
    \/ BuildModel

Spec == Init /\ [][Next]_vars

-----------------------------------------------------------------------------
\* Helpers of the properties below.
LoadedWords == table.index2word

IsModel(m) == m.kind = "Model"

\* The embedded tensors of a built model, in branch order.
EmbeddedTensors(m) ==
    IF m.outputs[1].layer.op = "Concatenate" THEN m.outputs[1].applied_to
    ELSE m.outputs

ExpectedInputName == <<"input_0", "input_1", "input_2", "input_3">>

ExpectedLayerName ==
    <<"layer_embedding_0", "layer_embedding_1", "layer_embedding_2", "layer_embedding_3">>

\* C1: after vocabulary construction, the word at position i of the loaded
\* table has index 4 + i and row 4 + i of the vector matrix is its vector,
\* also when the table holds a reserved token.
C1_LoadedVectorsAligned ==
    w2v_model_loaded =>
        \A i \in 1..Len(LoadedWords) :
            /\ DictGet(w2v_token2idx, LoadedWords[i]) = 4 + (i - 1)
            /\ 4 + (i - 1) < Len(w2v_vector_matrix)
            /\ Row(w2v_vector_matrix, DictGet(w2v_token2idx, LoadedWords[i]))
                 = table.vectors[i]

\* C2: after vocabulary construction pad, unk, bos and eos have the indices
\* 0, 1, 2 and 3, and no loaded word has an index below 4.
C2_ReservedFirst ==
    w2v_model_loaded =>
        /\ DictGet(w2v_token2idx, token_pad) = 0
        /\ DictGet(w2v_token2idx, token_unk) = 1
        /\ DictGet(w2v_token2idx, token_bos) = 2
        /\ DictGet(w2v_token2idx, token_eos) = 3
        /\ \A i \in 1..Len(LoadedWords) : DictGet(w2v_token2idx, LoadedWords[i]) >= 4

\* C7: after vocabulary construction the processor's token2idx is the w2v
\* token2idx, its indices are exactly 0..N-1 for N = 4 + the number of loaded
\* words, it is injective, and the processor's idx2token is its inverse.
C7_ProcessorAligned ==
    w2v_model_loaded =>
        LET t2i == processor_token2idx
            i2t == processor_idx2token
            N == 4 + Len(LoadedWords)
        IN /\ t2i = w2v_token2idx
           /\ DictValues(t2i) = 0..(N - 1)
           /\ \A a, b \in DictKeys(t2i) : DictGet(t2i, a) = DictGet(t2i, b) => a = b
           /\ DictKeys(i2t) = DictValues(t2i)
           /\ \A t \in DictKeys(t2i) : DictGet(i2t, DictGet(t2i, t)) = t
           /\ \A i \in 0..(N - 1) : DictGet(t2i, DictGet(i2t, i)) = i

\* C8: over construction and any number of analyze_corpus calls,
\* _build_token2idx_from_w2v runs at most once.
C8_LoadedAtMostOnce == loads <= 1

\* A run of _build_model with token_count > 0 was the last thing to happen:
\* a call of _build_model, or the constructor's after its load.
RanBuildWithVocabulary ==
    /\ token_count > 0
    /\ \/ last_call = "_build_model"
       \/ last_call = "__init__" /\ w2v_model_loaded

\* C3: after _build_model ran with token_count > 0 there is a model with one
\* input and one embedding layer per configured length, in order: input i is
\* named input_i and has shape (sequence_length[i],), layer i is named
\* layer_embedding_i and is applied to input i, and the model's inputs are
\* these placeholders in order.
C3_OneBranchPerLength ==
    RanBuildWithVocabulary =>
        /\ IsModel(embed_model)
        /\ LET n == Len(sequence_length)
               ins == embed_model.inputs
               embs == EmbeddedTensors(embed_model)
           IN /\ Len(ins) = n
              /\ Len(embs) = n
              /\ \A i \in 1..n :
                   /\ ins[i].op = "Input"
                   /\ ins[i].name = ExpectedInputName[i]
                   /\ ins[i].shape = <<sequence_length[i]>>
                   /\ embs[i].layer.op = "Embedding"
                   /\ embs[i].layer.name = ExpectedLayerName[i]
                   /\ embs[i].applied_to = <<ins[i]>>

\* C4: every embedding layer _build_model creates, whether or not the run
\* goes on to assign embed_model, is not trainable and has the
\* w2v_vector_matrix of vocabulary construction as its weights.
C4_FrozenSharedWeights ==
    /\ \A i \in DOMAIN created_layers :
          /\ created_layers[i].op = "Embedding"
          /\ created_layers[i].trainable = FALSE
          /\ created_layers[i].weights = <<w2v_vector_matrix>>
          /\ created_layers[i].input_dim = token_count
          /\ created_layers[i].output_dim = embedding_size
    /\ IsModel(embed_model) =>
          \A i \in DOMAIN EmbeddedTensors(embed_model) :
              /\ EmbeddedTensors(embed_model)[i].layer.trainable = FALSE
              /\ EmbeddedTensors(embed_model)[i].layer.weights = <<w2v_vector_matrix>>

C4_Witness ==
    /\ Len(created_layers) > 1
    /\ sequence_length[1] # sequence_length[2]
    /\ Len(w2v_vector_matrix) > 4
    /\ \E r \in 1..Len(w2v_vector_matrix) :
           w2v_vector_matrix[r] # Zeros(embedding_size)

\* C5: after _build_model ran with token_count > 0, the outputs are
\* concatenated exactly when more than one length is configured: then the
\* model's output is the one layer_concatenate of all embedded tensors in
\* order; with one length it is the one embedded tensor.
C5_ConcatenateIffSeveral ==
    RanBuildWithVocabulary =>
        /\ IsModel(embed_model)
        /\ LET n == Len(sequence_length)
               outs == embed_model.outputs
           IN /\ Len(outs) = 1
              /\ IF n > 1
                 THEN /\ outs[1].layer.op = "Concatenate"
                      /\ outs[1].layer.name = "layer_concatenate"
                      /\ Len(outs[1].applied_to) = n
                      /\ \A i \in 1..n :
                           /\ outs[1].applied_to[i].layer.op = "Embedding"
                           /\ outs[1].applied_to[i].applied_to = <<embed_model.inputs[i]>>
                 ELSE /\ outs[1].layer.op = "Embedding"
                      /\ outs[1].applied_to = <<embed_model.inputs[1]>>

\* C6 as stated: after vocabulary construction the four reserved rows 0..3
\* are all zero, and the rows from 4 on hold the loaded vectors.
C6_ReservedRowsZero ==
    w2v_model_loaded =>
        /\ \A r \in 0..3 : Row(w2v_vector_matrix, r) = Zeros(embedding_size)
        /\ \A r \in 4..(Len(w2v_vector_matrix) - 1) :
               Row(w2v_vector_matrix, r) = table.vectors[r - 3]

\* C6 amended: after vocabulary construction the reserved rows 0, 2 and 3 are
\* all zero, row 1 (the unk row) holds a draw of np.random.rand, and the rows
\* from 4 on hold the loaded vectors in table order.
C6_ReservedRowsZeroButUnk ==
    w2v_model_loaded =>
        /\ Len(w2v_vector_matrix) = Len(w2v_token2idx)
        /\ \A r \in {0, 2, 3} : Row(w2v_vector_matrix, r) = Zeros(embedding_size)
        /\ Row(w2v_vector_matrix, 1) \in RandVectors(embedding_size)
        /\ \A r \in 4..(Len(w2v_vector_matrix) - 1) :
               Row(w2v_vector_matrix, r) = table.vectors[r - 3]

C6_Witness ==
    /\ w2v_model_loaded
    /\ Row(w2v_vector_matrix, 1) # Zeros(embedding_size)
    /\ Len(w2v_vector_matrix) > 5
    /\ Row(w2v_vector_matrix, 5) # Zeros(embedding_size)
    /\ Row(w2v_vector_matrix, 4) # Row(w2v_vector_matrix, 5)

\* C9: whenever analyze_corpus reaches the call of the base class,
\* w2v_model_loaded is True and the processor's token2idx is the loaded
\* vocabulary; and w2v_model_loaded, once True, never becomes False.
C9_VocabularyBeforeAnalysis ==
    /\ [](pc = "super" =>
            /\ w2v_model_loaded
            /\ processor_token2idx = w2v_token2idx
            /\ w2v_token2idx = BuildToken2idx(table))
    /\ [][w2v_model_loaded => w2v_model_loaded']_vars

C9_Witness ==
    /\ pc = "super"
    /\ calls > 1
    /\ loads = 1
    /\ w2v_model_loaded

\* C10: a _build_model call made while token_count is 0 creates no layer,
\* raises nothing and leaves embed_model as it was; embed_model changes only
\* in a _build_model call (the constructor's included) made with
\* token_count > 0.
C10_NoBuildWithoutVocabulary ==
    [][/\ (last_call' = "_build_model" /\ calls' # calls /\ token_count = 0)
            => (/\ embed_model' = embed_model
                /\ created_layers' = <<>>
                /\ raised' = FALSE
                /\ pc' = pc)
       /\ (embed_model' # embed_model)
            => (/\ TokenCount(processor_token2idx') > 0
                /\ last_call' \in {"__init__", "_build_model"})]_vars

C10_Witness ==
    /\ last_call = "_build_model"
    /\ token_count = 0
    /\ embed_model = None
    /\ created_layers = <<>>
    /\ raised = FALSE

=============================================================================
